---- MODULE Spec2Model ----
(***************************************************************************)
(* A model of the voice streaming client of src/frontend/voice.js (the     *)
(* current implementation, lines 279-747): the WebSocket lifecycle with    *)
(* its reconnect timer, the microphone capture pipeline, the handling of   *)
(* server messages and the playback of synthesized audio.                  *)
(*                                                                         *)
(* The browser is single threaded: every handler below runs to completion  *)
(* before the next event is delivered, so each handler is one action.  An  *)
(* `await` splits a function in two: the part before it belongs to the     *)
(* action of the caller, the part after it is an action of its own         *)
(* (getUserMedia), except where the awaited promise is already settled and *)
(* the continuation runs as a microtask before any other event             *)
(* (decodePCMAudio inside playTTSAudio).                                   *)
(*                                                                         *)
(* The session identifier is shared through localStorage with chat.js and *)
(* search.js; SessionSpec adds the operations of those pages that read or  *)
(* write it.                                                               *)
(*                                                                         *)
(* Not modelled: CSS classes, console output and the text of transcript    *)
(* entries (only the kind of the entry added last is kept).                *)
(***************************************************************************)
EXTENDS Integers, Sequences, FiniteSets, TLC

\* ---------------------------------------------------------------- bounds
\* Each specification fixes its bounds in the variable `cap`, which no action
\* changes.  The bounds of Spec:
MaxConn == 2        \* WebSocket objects constructed in one run
MaxThrows == 1      \* failures of connectWebSocket to construct one
MaxChunks == 1      \* fragments held by ttsAudioChunks
MaxPlay == 2        \* buffer sources playing at the same time
MaxPending == 2     \* startRecording calls awaiting getUserMedia
MaxPipes == 2       \* capture pipelines created in one run
MaxStopTimers == 1  \* pending 2000 ms timers of stopRecording
MaxSent == 1        \* messages sent by the client in one run
MaxTranscript == 0  \* transcript entries kept (the most recent ones)
MaxIds == 1         \* session identifiers generated in one run
MaxRequests == 0    \* /chat requests made by the other pages in one run
\* The bounds of ConnSpec, StrictSpec, FairSpec and DisplaySpec, where they
\* differ from those of Spec:
ConnConn == 3
ConnIds == 3
ConnPlay == 1
ConnPending == 1
ConnPipes == 1
FairConn == 2
StrictThrows == 0
FairPlay == 1
FairPending == 1
FairPipes == 1
DisplayConn == 2
DisplayPlay == 1
DisplayPending == 1
DisplayPipes == 1
DisplayTranscript == 1
FlowChunks == 2
FlowSent == 4
CapturePlay == 1
SessionConn == 3
SessionIds == 3
SessionRequests == 3
CaptureSent == 3
ChatIds == 2
ChatRequests == 4
SearchIds == 3
SearchRequests == 4
StoredIds == 2
StoredRequests == 2
MaxSample == 66
SampleStep == 1021

\* ------------------------------------------------------ program constants
ShortDelay == 500
LongDelay == 3000
StopDelay == 2000
NegativeScale == 32768
PositiveScale == 32767
DecodeScale == 32768

VARIABLES
    cap,             \* the bounds of the run, constant
    loaded,          \* DOMContentLoaded has been delivered
    conns,           \* readyState of every WebSocket constructed, in order
    websocket,       \* index into conns of the global `websocket`, 0 = null
    reconnectTimer,  \* the global `reconnectTimer`: a timer or NoTimer
    timers,          \* the reconnect timeouts pending in the event loop
    stopTimers,      \* number of pending timeouts set by stopRecording
    isRecording,
    isProcessing,
    isSpeaking,
    ttsAudioChunks,  \* sequence of base64 fragments
    playing,         \* the buffer sources started and not ended: context and input
    micPending,      \* startRecording calls suspended at `await getUserMedia`
    pipes,           \* state of every capture pipeline created, in order
    mediaStream,     \* index into pipes of the global `mediaStream`, 0 = null
    scriptProcessor, \* index into pipes of the global `scriptProcessor`, 0 = null
    audioContext,    \* the global `audioContext`: a context or NoCtx
    micDisabled,     \* micButton.disabled
    micStatus,       \* micStatus.textContent
    statusText,      \* statusText.textContent
    transcript,      \* kinds of the entries appended to the transcript, most recent last
    sent,            \* messages handed to websocket.send, in order
    ttsConn,         \* connection on which a synthesis was started and not ended, 0 = none
    storage,         \* localStorage[SESSION_STORAGE_KEY]: an identifier or Absent
    sessions,        \* session_id parameter of every WebSocket constructed, in order
    ids,             \* number of identifiers generated so far
    requests,        \* session_id of every /chat request of chat.js and search.js, in order
    chatRequest,     \* session_id of every chat submit awaiting its response, in order
    chatPage,        \* chat.js: mode, live-prices presets and results, controls
    searchPage,      \* search.js: the panels shown, the search button, requests in flight
    sample,          \* one audio sample on its way through the PCM conversions
    clientClosed,    \* connection the beforeunload cleanup called close() on, 0 = none
    path             \* events so far, while they are a prefix of HappyPath; else Off

vars == <<cap, loaded, conns, websocket, reconnectTimer, timers, stopTimers,
          isRecording, isProcessing, isSpeaking, ttsAudioChunks, playing,
          micPending, pipes, mediaStream, scriptProcessor, audioContext,
          micDisabled, micStatus, statusText, transcript, sent, ttsConn,
          storage, sessions, ids, requests, chatRequest, chatPage, searchPage,
          sample, clientClosed, path>>

connVars == <<conns, websocket, reconnectTimer, timers>>
captureVars == <<micPending, pipes, mediaStream, scriptProcessor>>
uiVars == <<micDisabled, micStatus, statusText, transcript>>
sessionVars == <<storage, sessions, ids>>
pageVars == <<requests, chatRequest, chatPage, searchPage>>
clientVars == <<cap, sample, clientClosed, loaded, connVars, stopTimers, isRecording, isProcessing, isSpeaking,
                ttsAudioChunks, playing, captureVars, audioContext, uiVars, sent, ttsConn,
                sessionVars, pageVars>>

\* ------------------------------------------------------------ value sets
NoTimer == [conn |-> 0, delay |-> 0]
NoCtx == [kind |-> "none", id |-> 0]
Fragments == {"f1", "f2"}

\* A timer set by the close handler of connection c with the given delay.
Timer(c, d) == [conn |-> c, delay |-> d]

\* The audio context created by startRecording for pipeline p.
CaptureCtx(p) == [kind |-> "capture", id |-> p]

\* An audio context after close(): audioContext.state === 'closed'.
ClosedCtx(ctx) == [kind |-> "closed", id |-> ctx.id]

\* The audio context created by playTTSAudio when none is usable; at most one
\* is created between two pipeline creations.
PlaybackCtx == [kind |-> "playback", id |-> Len(pipes)]

\* The text of a base64 fragment, as a sequence of characters.
FragmentText(f) == IF f = "f1" THEN <<"a">> ELSE <<"b", "c">>

RECURSIVE Join(_)
\* ttsAudioChunks.join('')
Join(chunks) ==
    IF chunks = <<>> THEN <<>> ELSE FragmentText(Head(chunks)) \o Join(Tail(chunks))

\* Values of the storage key.  An identifier is generated (the n-th one made
\* in this run, 0 for one a previous page load made) or came from a server
\* response, with at most 10 characters or more.  getItem returns null for a
\* key that is absent and '' for one that holds the empty string.
Absent == [kind |-> "absent", n |-> 0]
Empty == [kind |-> "empty", n |-> 0]
Generated(n) == [kind |-> "generated", n |-> n]
ServerId(kind) == [kind |-> kind, n |-> 0]

\* The scenario of the documented message flow, as event labels.
HappyPath ==
    <<"load", "open", "click", "granted", "frame", "frame", "frame", "click",
      "final_text", "assistant_response", "tts_start", "f1", "f2", "tts_end", "ended">>

Off == Len(HappyPath) + 1

\* The position in HappyPath after the event e.
After(e) == IF path < Len(HappyPath) /\ HappyPath[path + 1] = e THEN path + 1 ELSE Off

ReadyOpen(c) == c \in 1..Len(conns) /\ conns[c] = "open"

WebsocketSet == websocket # 0

WebsocketNotClosed == websocket # 0 /\ conns[websocket] # "closed"

\* websocket && websocket.readyState === WebSocket.OPEN
WebsocketOpen == websocket # 0 /\ conns[websocket] = "open"

\* addTranscript / addHotelsToTranscript: the entries are appended; the model
\* keeps the cap.transcript most recent ones.
AddTranscript(entries) ==
    LET all == transcript \o entries
        drop == IF Len(all) > cap.transcript THEN Len(all) - cap.transcript ELSE 0
    IN  SubSeq(all, drop + 1, Len(all))

\* -------------------------------------------------------- PCM conversions
\* A float sample is the number k / SampleScale: the float32 values with 16
\* fractional bits, which all of the conversions below handle exactly.
SampleScale == 2 * DecodeScale

\* The samples of a run: a grid over [-1, 1] and beyond it, and the end points.
Samples ==
    {j * SampleStep : j \in -MaxSample..MaxSample} \cup {-SampleScale, SampleScale}

\* The integer part of n / d, as a conversion to an integer type takes it.
Trunc(n, d) == IF n >= 0 THEN n \div d ELSE (n \div d) + (IF n % d = 0 THEN 0 ELSE 1)

\* Math.max(-1, Math.min(1, float32[i]))
Clamp(k) ==
    IF k < -SampleScale THEN -SampleScale ELSE IF k > SampleScale THEN SampleScale ELSE k

\* s < 0 ? s * 0x8000 : s * 0x7FFF, and the integer part the typed array keeps
Scaled(k) ==
    LET s == Clamp(k)
    IN  Trunc(IF s < 0 THEN s * NegativeScale ELSE s * PositiveScale, SampleScale)

\* The store into an Int16Array: the integer modulo 2^16, as a signed value.
ToInt16(n) == ((n + NegativeScale) % (2 * NegativeScale)) - NegativeScale

\* pcm16[i] = ...
FloatToPcm16(k) == ToInt16(Scaled(k))

\* pcm16.buffer: the two bytes of a sample, low byte first
Pcm16Bytes(q) == LET u == q % (2 * NegativeScale) IN <<u % 256, u \div 256>>

\* dataView.getInt16(i * 2, true)
GetInt16(bytes) ==
    LET u == bytes[1] + 256 * bytes[2]
    IN  IF u >= NegativeScale THEN u - 2 * NegativeScale ELSE u

\* decodePCMAudio: channelData[i] = int16 / 32768.0, in units of 1 / SampleScale
DecodePCMAudio(bytes) == GetInt16(bytes) * (SampleScale \div DecodeScale)

\* A sample as onaudioprocess reads it from the input buffer.
Captured(k) == [stage |-> "captured", float32 |-> k, pcm16 |-> 0, bytes |-> <<0, 0>>,
                channelData |-> 0]

\* chat.js after its script ran: currentMode = 'standard', livePricesPresets
\* = null (FALSE: null), livePricesResults = null; the standard mode shows no
\* form and leaves the input enabled.
ChatPageLoaded ==
    [currentMode |-> "standard", livePricesPresets |-> FALSE, livePricesResults |-> "null",
     inputDisabled |-> FALSE, sendDisabled |-> FALSE, formShown |-> FALSE,
     searchInfoShown |-> FALSE, startDisabled |-> FALSE, searches |-> 0]

\* search.js after its script ran: the panels as clearFilters leaves them.
SearchPageLoaded ==
    [emptyState |-> TRUE, resultsContainer |-> FALSE, errorMessage |-> FALSE,
     searchDisabled |-> FALSE, pending |-> 0]

\* ------------------------------------------------------------------ Init
Caps == [conn |-> MaxConn, throws |-> MaxThrows, chunks |-> MaxChunks, play |-> MaxPlay,
         pending |-> MaxPending, pipes |-> MaxPipes, stop |-> MaxStopTimers,
         sent |-> MaxSent, transcript |-> MaxTranscript, ids |-> MaxIds,
         requests |-> MaxRequests,
         frags |-> {"f1"}, stored |-> {Absent}, samples |-> {0}]

\* The page is not in src/: whether its markup disables the mic button until the
\* first onopen is not known, so the initial value is drawn from `disabled`.
InitWith(caps, disabled) ==
    /\ cap = caps
    /\ loaded = FALSE
    /\ conns = <<>>
    /\ websocket = 0
    /\ reconnectTimer = NoTimer
    /\ timers = {}
    /\ stopTimers = 0
    /\ isRecording = FALSE
    /\ isProcessing = FALSE
    /\ isSpeaking = FALSE
    /\ ttsAudioChunks = <<>>
    /\ playing = <<>>
    /\ micPending = 0
    /\ pipes = <<>>
    /\ mediaStream = 0
    /\ scriptProcessor = 0
    /\ audioContext = NoCtx
    /\ micDisabled \in disabled
    /\ micStatus = "initial"
    /\ statusText = "initial"
    /\ transcript = <<>>
    /\ sent = <<>>
    /\ ttsConn = 0
    /\ storage \in caps.stored
    /\ sessions = <<>>
    /\ ids = 0
    /\ requests = <<>>
    /\ chatRequest = <<>>
    /\ chatPage = ChatPageLoaded
    /\ searchPage = SearchPageLoaded
    /\ sample \in {Captured(k) : k \in caps.samples}
    /\ clientClosed = 0
    /\ path = 0

\* ----------------------------------------------------------- connection
GetOrCreateSessionIdAlwaysNew ==
    [value |-> Generated(ids + 1), store |-> Generated(ids + 1), made |-> 1]

\* if (existing): null and the empty string are falsy
Truthy(v) == v.kind \notin {"absent", "empty"}

\* getOrCreateSessionId of voice.js: the value returned, the value under the
\* storage key afterwards and the number of identifiers generated.
GetOrCreateSessionId ==
    IF Truthy(storage)
    THEN [value |-> storage, store |-> storage, made |-> 0]
    ELSE [value |-> Generated(ids + 1), store |-> Generated(ids + 1), made |-> 1]

Throws == {"none", "storage", "socket"}

\* connectWebSocket: getOrCreateSessionId may throw (localStorage refuses the
\* read or the write: "storage") and so may the WebSocket constructor
\* ("socket"), which the catch block turns into a status change and a notice;
\* no handler is installed and no timer is set in that case.
ConnectWebSocket(throws) ==
    /\ ids + GetOrCreateSessionId.made <= cap.ids
    /\ IF throws = "storage"
       THEN UNCHANGED <<storage, ids>>
       ELSE /\ storage' = GetOrCreateSessionId.store
            /\ ids' = ids + GetOrCreateSessionId.made
    /\ IF throws # "none"
       THEN /\ cap.throws > 0
            /\ UNCHANGED <<conns, websocket, sessions>>
            /\ statusText' = "Error"
            /\ transcript' = AddTranscript(<<"system: failed to connect">>)
       ELSE /\ Len(conns) < cap.conn
            /\ conns' = Append(conns, "connecting")
            /\ websocket' = Len(conns) + 1
            /\ sessions' = Append(sessions, GetOrCreateSessionId.value)
            /\ UNCHANGED <<statusText, transcript>>

DOMContentLoaded ==
    /\ ~loaded
    /\ loaded' = TRUE
    /\ path' = After("load")
    /\ \E throws \in Throws : ConnectWebSocket(throws)
    /\ UNCHANGED <<cap, sample, clientClosed, pageVars, reconnectTimer, timers, stopTimers, isRecording,
                   isProcessing,
                   isSpeaking, ttsAudioChunks, playing, captureVars, audioContext,
                   micDisabled, micStatus, sent, ttsConn>>

\* websocket.onopen
OnOpen(c) ==
    /\ c \in 1..Len(conns)
    /\ conns[c] = "connecting"
    /\ conns' = [conns EXCEPT ![c] = "open"]
    /\ statusText' = "Connected"
    /\ micDisabled' = FALSE
    /\ micStatus' = "Click to speak"
    /\ UNCHANGED <<cap, sample, clientClosed, loaded, sessionVars, pageVars,
                   websocket, reconnectTimer, timers, stopTimers, isRecording,
                   isProcessing, isSpeaking, ttsAudioChunks, playing, captureVars,
                   audioContext, transcript, sent, ttsConn>>
    /\ path' = After("open")

ReconnectDelayFixed == LongDelay

\* const delay = isProcessing ? 500 : 3000
ReconnectDelay == IF isProcessing THEN ShortDelay ELSE LongDelay

\* if (reconnectTimer) { clearTimeout(reconnectTimer); reconnectTimer = null; }
ClearedTimers == IF reconnectTimer # NoTimer THEN timers \ {reconnectTimer} ELSE timers

\* The closing handshake of the open connection c starts (the server sent a
\* Close frame, or the page called close()): readyState is CLOSING and no
\* handler runs until the connection is closed.
ClosingStarted(c) ==
    /\ ReadyOpen(c)
    /\ Len(conns) < cap.conn
    /\ conns' = [conns EXCEPT ![c] = "closing"]
    /\ UNCHANGED <<cap, sample, clientClosed, loaded, sessionVars, pageVars,
                   websocket, reconnectTimer, timers, stopTimers, isRecording,
                   isProcessing, isSpeaking, ttsAudioChunks, playing, captureVars,
                   audioContext, uiVars, sent, ttsConn>>
    /\ path' = After("closing")

\* The connection c ends.  The browser sets readyState to CLOSED and then, in
\* one task, fires `error` (when the connection failed; always so for a
\* connection that never opened) and `close`: onerror runs, then onclose.
\* A run has at most cap.conn - 1 such events, so that the reconnect they
\* schedule is never held back by the bound on the connections.
OnClose(c, failed) ==
    /\ c \in 1..Len(conns)
    /\ Len(conns) < cap.conn
    /\ conns[c] \in {"connecting", "open", "closing"}
    /\ conns[c] = "connecting" => failed
    /\ conns' = [conns EXCEPT ![c] = "closed"]
    /\ statusText' = "Disconnected"
    /\ transcript' = IF failed THEN AddTranscript(<<"system: connection error">>) ELSE transcript
    /\ micDisabled' = TRUE
    /\ micStatus' = "Reconnecting..."
    /\ reconnectTimer' = Timer(c, ReconnectDelay)
    /\ timers' = ClearedTimers \cup {Timer(c, ReconnectDelay)}
    /\ ttsConn' = IF ttsConn = c THEN 0 ELSE ttsConn
    /\ UNCHANGED <<cap, sample, clientClosed, loaded, sessionVars, pageVars,
                   websocket, stopTimers, isRecording, isProcessing, isSpeaking,
                   ttsAudioChunks, playing, captureVars, audioContext, sent>>
    /\ path' = After("close")

TimersAfterFireInterval(t) == timers

\* setTimeout is one-shot: the timer that fires is no longer pending.
TimersAfterFire(t) == timers \ {t}

ReconnectTimerStale == reconnectTimer

\* reconnectTimer = null, the first statement of the callback
ReconnectTimerAfterFire == NoTimer

\* The callback of the reconnect timer: reconnectTimer = null; connectWebSocket()
ReconnectTimerFire(t) ==
    /\ t \in timers
    /\ timers' = TimersAfterFire(t)
    /\ reconnectTimer' = ReconnectTimerAfterFire
    /\ path' = After("timer")
    /\ \E throws \in Throws : ConnectWebSocket(throws)
    /\ UNCHANGED <<cap, sample, clientClosed, loaded, pageVars, stopTimers, isRecording, isProcessing,
                   isSpeaking,
                   ttsAudioChunks, playing, captureVars, audioContext, micDisabled,
                   micStatus, sent, ttsConn>>

\* ------------------------------------------------------ server messages
\* What the client reads of a message: its type and whether the optional
\* fields are present and non-empty.  "partial_text" is a type of the
\* documented message flow that the switch has no case for, "unknown" any
\* other type, "malformed" a payload JSON.parse rejects.  A hotels list may
\* hold an entry that is not an object (null), which addHotelsToTranscript
\* cannot render: `invalid`.
Messages ==
    [type : {"transcript", "final_text"}, text : BOOLEAN]
    \cup [type : {"response", "assistant_response"}, text : BOOLEAN, hotels : BOOLEAN]
    \cup [type : {"response", "assistant_response"}, text : BOOLEAN, hotels : {TRUE},
          invalid : {TRUE}]
    \cup [type : {"tts_audio"}, audio : cap.frags \cup {""}]
    \cup [type : {"tts_start", "tts_end", "tts_error", "audio", "error", "server_debug",
                  "partial_text", "unknown", "malformed"}]

\* The event label of a message: its type, the fragment of a tts_audio; a
\* message without the fields the scenario names is another event.
MessageLabel(m) ==
    IF m.type = "tts_audio" THEN (IF m.audio = "" THEN "empty" ELSE m.audio)
    ELSE IF "invalid" \in DOMAIN m THEN "other"
    ELSE IF m.type \in {"transcript", "final_text"} /\ ~m.text THEN "other"
    ELSE IF m.type \in {"response", "assistant_response"} /\ ~(m.text /\ m.hotels)
    THEN "other"
    ELSE m.type

\* addHotelsToTranscript(hotels) throws on the first entry it cannot read
\* (hotel.name of null), before it appends anything; the catch of onmessage
\* logs the exception.
HandlingThrows(m) == "invalid" \in DOMAIN m

\* The transcript entries a response adds: the text, then the hotel cards.
ResponseEntries(m) ==
    (IF m.text THEN <<"assistant">> ELSE <<>>)
        \o (IF m.hotels /\ ~HandlingThrows(m) THEN <<"hotels">> ELSE <<>>)

\* case 'transcript': case 'final_text':
HandleText(m) ==
    /\ m.type \in {"transcript", "final_text"}
    /\ transcript' = IF m.text THEN AddTranscript(<<"user">>) ELSE transcript
    /\ UNCHANGED <<isProcessing, isSpeaking, ttsAudioChunks, playing, audioContext,
                   micStatus, ttsConn>>

\* case 'response':
HandleResponse(m) ==
    /\ m.type = "response"
    /\ transcript' = AddTranscript(ResponseEntries(m))
    /\ UNCHANGED <<isProcessing, isSpeaking, ttsAudioChunks, playing, audioContext,
                   micStatus, ttsConn>>

\* case 'assistant_response':
HandleAssistantResponse(m) ==
    /\ m.type = "assistant_response"
    /\ isProcessing' = FALSE
    /\ transcript' = AddTranscript(ResponseEntries(m))
    /\ UNCHANGED <<isSpeaking, ttsAudioChunks, playing, audioContext, micStatus, ttsConn>>

\* case 'tts_start':
HandleTtsStart(c, m) ==
    /\ m.type = "tts_start"
    /\ ttsAudioChunks' = <<>>
    /\ isSpeaking' = TRUE
    /\ micStatus' = "Assistant speaking..."
    /\ ttsConn' = c
    /\ UNCHANGED <<isProcessing, playing, audioContext, transcript>>

HandleTtsAudioPrepend(m) ==
    /\ m.type = "tts_audio"
    /\ IF m.audio # ""
       THEN /\ Len(ttsAudioChunks) < cap.chunks
            /\ ttsAudioChunks' = <<m.audio>> \o ttsAudioChunks
       ELSE UNCHANGED ttsAudioChunks
    /\ UNCHANGED <<isProcessing, isSpeaking, playing, audioContext, micStatus,
                   transcript, ttsConn>>

\* case 'tts_audio':
HandleTtsAudio(m) ==
    /\ m.type = "tts_audio"
    /\ IF m.audio # ""
       THEN /\ Len(ttsAudioChunks) < cap.chunks
            /\ ttsAudioChunks' = Append(ttsAudioChunks, m.audio)
       ELSE UNCHANGED ttsAudioChunks
    /\ UNCHANGED <<isProcessing, isSpeaking, playing, audioContext, micStatus,
                   transcript, ttsConn>>

ResetSpeakingStateKeepsChunks ==
    /\ isSpeaking' = FALSE
    /\ isProcessing' = FALSE
    /\ micStatus' = "Click to speak"
    /\ UNCHANGED ttsAudioChunks

\* resetSpeakingState
ResetSpeakingState ==
    /\ isSpeaking' = FALSE
    /\ isProcessing' = FALSE
    /\ micStatus' = "Click to speak"
    /\ ttsAudioChunks' = <<>>

\* if (!audioContext || audioContext.state === 'closed') audioContext = new AudioContext
\* (stopRecording sets the variable to null when it closes the context; the
\* beforeunload cleanup closes it and leaves it in the variable)
PlaybackContext ==
    IF audioContext = NoCtx \/ audioContext.kind = "closed" THEN PlaybackCtx ELSE audioContext

PlayTTSAudioUncaught(outcome) ==
    IF ttsAudioChunks = <<>>
    THEN /\ outcome = "ok"
         /\ ResetSpeakingState
         /\ UNCHANGED <<playing, audioContext, transcript>>
    ELSE IF outcome = "ok"
    THEN /\ Len(playing) < cap.play
         /\ audioContext' = PlaybackContext
         /\ playing' = Append(playing, [ctx |-> PlaybackContext,
                                        input |-> Join(ttsAudioChunks)])
         /\ UNCHANGED <<isProcessing, isSpeaking, ttsAudioChunks, micStatus,
                        transcript>>
    ELSE /\ audioContext' = IF outcome = "decode" THEN PlaybackContext ELSE audioContext
         /\ UNCHANGED <<isProcessing, isSpeaking, ttsAudioChunks, micStatus, transcript,
                        playing>>

\* playTTSAudio.  outcome: "ok", or the step that throws: "atob" (invalid
\* base64), "context" (the AudioContext constructor), "decode" (decodePCMAudio
\* or the creation of the buffer source, after the context exists).
PlayTTSAudio(outcome) ==
    IF ttsAudioChunks = <<>>
    THEN /\ outcome = "ok"
         /\ ResetSpeakingState
         /\ UNCHANGED <<playing, audioContext, transcript>>
    ELSE IF outcome = "ok"
    THEN /\ Len(playing) < cap.play
         /\ audioContext' = PlaybackContext
         /\ playing' = Append(playing, [ctx |-> PlaybackContext,
                                        input |-> Join(ttsAudioChunks)])
         /\ UNCHANGED <<isProcessing, isSpeaking, ttsAudioChunks, micStatus,
                        transcript>>
    ELSE /\ audioContext' = IF outcome = "decode" THEN PlaybackContext ELSE audioContext
         /\ transcript' = AddTranscript(<<"system: failed to play audio">>)
         /\ ResetSpeakingState
         /\ UNCHANGED playing

\* case 'tts_end':
HandleTtsEnd(c, m) ==
    /\ m.type = "tts_end"
    /\ \E outcome \in {"ok", "atob", "context", "decode"} : PlayTTSAudio(outcome)
    /\ ttsConn' = IF ttsConn = c THEN 0 ELSE ttsConn

\* case 'tts_error':
HandleTtsError(c, m) ==
    /\ m.type = "tts_error"
    /\ transcript' = AddTranscript(<<"system: audio playback error">>)
    /\ ResetSpeakingState
    /\ ttsConn' = IF ttsConn = c THEN 0 ELSE ttsConn
    /\ UNCHANGED <<playing, audioContext>>

HandleErrorResets(m) ==
    /\ m.type = "error"
    /\ transcript' = AddTranscript(<<"system: error">>)
    /\ ResetSpeakingState
    /\ UNCHANGED <<playing, audioContext, ttsConn>>

\* case 'error':
HandleError(m) ==
    /\ m.type = "error"
    /\ isProcessing' = FALSE
    /\ transcript' = AddTranscript(<<"system: error">>)
    /\ UNCHANGED <<isSpeaking, ttsAudioChunks, playing, audioContext, micStatus, ttsConn>>

HandleIgnoredAsError(m) ==
    /\ m.type \in {"audio", "server_debug", "partial_text", "unknown", "malformed"}
    /\ isProcessing' = FALSE
    /\ UNCHANGED <<isSpeaking, ttsAudioChunks, playing, audioContext,
                   micStatus, transcript, ttsConn>>

\* case 'audio': case 'server_debug': default: and the catch of onmessage
\* when JSON.parse throws
HandleIgnored(m) ==
    /\ m.type \in {"audio", "server_debug", "partial_text", "unknown", "malformed"}
    /\ UNCHANGED <<isProcessing, isSpeaking, ttsAudioChunks, playing, audioContext,
                   micStatus, transcript, ttsConn>>

\* handleWebSocketMessage: switch (data.type)
HandleWebSocketMessage(c, m) ==
    \/ HandleText(m)
    \/ HandleResponse(m)
    \/ HandleAssistantResponse(m)
    \/ HandleTtsStart(c, m)
    \/ HandleTtsAudio(m)
    \/ HandleTtsEnd(c, m)
    \/ HandleTtsError(c, m)
    \/ HandleError(m)
    \/ HandleIgnored(m)

\* websocket.onmessage of connection c: messages are delivered while it is open
OnMessage(c, m) ==
    /\ ReadyOpen(c)
    /\ HandleWebSocketMessage(c, m)
    /\ UNCHANGED <<cap, sample, clientClosed, loaded, sessionVars, pageVars,
                   connVars, stopTimers, isRecording, captureVars,
                   micDisabled, statusText, sent>>
    /\ path' = After(IF m.type = "tts_end" /\ playing' = playing
                     THEN "tts_end without playback" ELSE MessageLabel(m))

\* source.onended of the i-th active buffer source
PlaybackEnded(i) ==
    /\ i \in 1..Len(playing)
    /\ playing' = [j \in 1..(Len(playing) - 1) |->
                      IF j < i THEN playing[j] ELSE playing[j + 1]]
    /\ ResetSpeakingState
    /\ UNCHANGED <<cap, sample, clientClosed, loaded, sessionVars, pageVars,
                   connVars, stopTimers, isRecording, captureVars, audioContext,
                   micDisabled, statusText, transcript, sent, ttsConn>>
    /\ path' = After("ended")

\* --------------------------------------------------------------- capture
\* A capture pipeline: the media stream granted by getUserMedia and the script
\* processor whose onaudioprocess forwards frames.
NewPipe(proc) == [stream |-> "live", proc |-> proc]

\* scriptProcessor.disconnect() and mediaStream.getTracks().forEach(stop) on
\* the objects the globals point to
StoppedPipes ==
    [p \in 1..Len(pipes) |->
        [stream |-> IF p = mediaStream THEN "stopped" ELSE pipes[p].stream,
         proc |-> IF p = scriptProcessor THEN "disconnected" ELSE pipes[p].proc]]

\* stopRecording
StopRecording ==
    /\ isRecording' = FALSE
    /\ isProcessing' = TRUE
    /\ pipes' = StoppedPipes
    /\ scriptProcessor' = 0
    /\ mediaStream' = 0
    /\ audioContext' = IF audioContext.kind = "closed" THEN audioContext ELSE NoCtx
    /\ IF WebsocketOpen
       THEN /\ Len(sent) < cap.sent
            /\ sent' = Append(sent, <<"audio_end", websocket>>)
       ELSE UNCHANGED sent
    /\ micStatus' = "Processing..."
    /\ stopTimers < cap.stop
    /\ stopTimers' = stopTimers + 1
    /\ UNCHANGED <<isSpeaking, micPending>>

\* startRecording up to `await navigator.mediaDevices.getUserMedia(...)`
StartRecording ==
    /\ micPending < cap.pending
    /\ micPending' = micPending + 1
    /\ UNCHANGED <<isRecording, isProcessing, isSpeaking, pipes, mediaStream,
                   scriptProcessor, audioContext, micStatus, stopTimers, sent>>

ClickNeverBlocked == FALSE

\* if (isSpeaking) return
ClickBlocked == isSpeaking

\* The click handler of micButton; a disabled button delivers no click.  The
\* script runs at the end of the document, so no click precedes DOMContentLoaded.
MicClick ==
    /\ loaded
    /\ ~micDisabled
    /\ IF ClickBlocked
       THEN UNCHANGED <<isRecording, isProcessing, isSpeaking, captureVars, audioContext,
                        micStatus, stopTimers, sent>>
       ELSE IF isRecording THEN StopRecording ELSE StartRecording
    /\ UNCHANGED <<cap, sample, clientClosed, loaded, sessionVars, pageVars,
                   connVars, ttsAudioChunks, playing, micDisabled, statusText,
                   transcript, ttsConn>>
    /\ path' = After("click")

\* startRecording after getUserMedia resolved.  outcome: "ok", or the step
\* that throws once the stream is held: "context" (the AudioContext
\* constructor), "processor" (createMediaStreamSource / createScriptProcessor).
GetUserMediaResolved(outcome) ==
    /\ micPending > 0
    /\ micPending' = micPending - 1
    /\ Len(pipes) < cap.pipes
    /\ mediaStream' = Len(pipes) + 1
    /\ IF outcome = "ok"
       THEN /\ pipes' = Append(pipes, NewPipe("connected"))
            /\ audioContext' = CaptureCtx(Len(pipes) + 1)
            /\ scriptProcessor' = Len(pipes) + 1
            /\ isRecording' = TRUE
            /\ micStatus' = "Recording... Click to stop"
            /\ UNCHANGED transcript
       ELSE /\ pipes' = Append(pipes, NewPipe("none"))
            /\ audioContext' = IF outcome = "processor"
                               THEN CaptureCtx(Len(pipes) + 1) ELSE audioContext
            /\ transcript' = AddTranscript(<<"system: microphone access denied">>)
            /\ micStatus' = "Microphone access denied"
            /\ UNCHANGED <<scriptProcessor, isRecording>>
    /\ UNCHANGED <<cap, sample, clientClosed, loaded, sessionVars, pageVars,
                   connVars, stopTimers, isProcessing, isSpeaking,
                   ttsAudioChunks, playing, micDisabled, statusText, sent, ttsConn>>
    /\ path' = After(IF outcome = "ok" THEN "granted" ELSE "failed")

\* startRecording after getUserMedia rejected: the catch block
GetUserMediaRejected ==
    /\ micPending > 0
    /\ micPending' = micPending - 1
    /\ transcript' = AddTranscript(<<"system: microphone access denied">>)
    /\ micStatus' = "Microphone access denied"
    /\ UNCHANGED <<cap, sample, clientClosed, loaded, sessionVars, pageVars,
                   connVars, stopTimers, isRecording, isProcessing, isSpeaking,
                   ttsAudioChunks, playing, pipes, mediaStream, scriptProcessor,
                   audioContext, micDisabled, statusText, sent, ttsConn>>
    /\ path' = After("rejected")

CaptureAlwaysActive == TRUE

\* if (!isRecording) return
CaptureActive == isRecording

\* scriptProcessor.onaudioprocess of pipeline p, which fires for as long as the
\* processor is connected
OnAudioProcess(p) ==
    /\ p \in 1..Len(pipes)
    /\ pipes[p].proc = "connected"
    /\ IF CaptureActive /\ WebsocketOpen
       THEN /\ Len(sent) < cap.sent
            /\ sent' = Append(sent, <<"frame", websocket>>)
       ELSE UNCHANGED sent
    /\ UNCHANGED <<cap, sample, clientClosed, loaded, sessionVars, pageVars,
                   connVars, stopTimers, isRecording, isProcessing, isSpeaking,
                   ttsAudioChunks, playing, captureVars, audioContext, uiVars, ttsConn>>
    /\ path' = After("frame")

\* The callback of the 2000 ms timer set by stopRecording
StopTimerFire ==
    /\ stopTimers > 0
    /\ stopTimers' = stopTimers - 1
    /\ micStatus' = IF ~isRecording /\ ~isSpeaking THEN "Click to speak" ELSE micStatus
    /\ UNCHANGED <<cap, sample, clientClosed, loaded, sessionVars, pageVars,
                   connVars, isRecording, isProcessing, isSpeaking,
                   ttsAudioChunks, playing, captureVars, audioContext, micDisabled,
                   statusText, transcript, sent, ttsConn>>
    /\ path' = path

\* The beforeunload listener: websocket.close(), scriptProcessor.disconnect(),
\* the tracks stopped and audioContext.close(), each on the object its variable
\* holds; no variable is assigned and no timer is cleared.  close() starts the
\* closing handshake of a connection that is connecting or open and does
\* nothing otherwise.  The page is unloaded afterwards (no later step) or stays
\* when the navigation is cancelled or is a download.
BeforeUnload ==
    /\ clientClosed = 0
    /\ IF websocket # 0 /\ conns[websocket] \in {"connecting", "open"}
       THEN /\ conns' = [conns EXCEPT ![websocket] = "closing"]
            /\ clientClosed' = websocket
       ELSE UNCHANGED <<conns, clientClosed>>
    /\ pipes' = StoppedPipes
    /\ audioContext' = IF audioContext = NoCtx THEN NoCtx ELSE ClosedCtx(audioContext)
    /\ UNCHANGED <<cap, sample, loaded, sessionVars, pageVars, websocket, reconnectTimer,
                   timers, stopTimers, isRecording, isProcessing, isSpeaking,
                   ttsAudioChunks, playing, micPending, mediaStream, scriptProcessor,
                   uiVars, sent, ttsConn>>
    /\ path' = After("beforeunload")

\* --------------------------------------------------------- specification
Next ==
    \/ DOMContentLoaded
    \/ \E c \in DOMAIN conns : OnOpen(c)
    \/ \E c \in DOMAIN conns : ClosingStarted(c)
    \/ \E c \in DOMAIN conns, failed \in BOOLEAN : OnClose(c, failed)
    \/ \E t \in timers : ReconnectTimerFire(t)
    \/ \E c \in DOMAIN conns, m \in Messages : OnMessage(c, m)
    \/ \E i \in DOMAIN playing : PlaybackEnded(i)
    \/ MicClick
    \/ \E outcome \in {"ok", "context", "processor"} : GetUserMediaResolved(outcome)
    \/ GetUserMediaRejected
    \/ \E p \in DOMAIN pipes : OnAudioProcess(p)
    \/ StopTimerFire

Init == InitWith(Caps, BOOLEAN)

Spec == Init /\ [][Next]_vars

\* The same client with more reconnects and less concurrent audio.
ConnCaps == [Caps EXCEPT !.conn = ConnConn, !.play = ConnPlay, !.pending = ConnPending,
                         !.pipes = ConnPipes, !.ids = ConnIds,
                         !.stored = {Absent, Generated(0)}]

ConnInit == InitWith(ConnCaps, BOOLEAN)

ConnSpec == ConnInit /\ [][Next]_vars

\* The same client with the transcript observed.
DisplayCaps == [Caps EXCEPT !.conn = DisplayConn, !.play = DisplayPlay,
                            !.pending = DisplayPending, !.pipes = DisplayPipes,
                            !.transcript = DisplayTranscript]

DisplayInit == InitWith(DisplayCaps, BOOLEAN)

DisplaySpec == DisplayInit /\ [][Next]_vars

\* The same client in the most orderly environment: the mic button is disabled
\* until the first onopen and connectWebSocket never fails to construct the
\* socket.
StrictCaps == [Caps EXCEPT !.throws = StrictThrows]

StrictInit == InitWith(StrictCaps, {TRUE})

StrictSpec == StrictInit /\ [][Next]_vars

\* The orderly client under the scheduling the browser and a well-behaved server
\* guarantee: a started buffer source ends, a pending timer fires, and a server
\* that started a synthesis on a connection ends it (tts_end or tts_error) for
\* as long as that connection stays open; a connection attempt opens or
\* fails and a closing handshake completes.  Nothing obliges a connection to
\* stay open, a user to click or a server to start a synthesis.
ServerEndsSynthesis ==
    \E c \in DOMAIN conns, t \in {"tts_end", "tts_error"} :
        ttsConn = c /\ OnMessage(c, [type |-> t])

ConnectionSettles ==
    \E c \in DOMAIN conns :
        \/ conns[c] = "connecting" /\ (OnOpen(c) \/ OnClose(c, TRUE))
        \/ conns[c] = "closing" /\ OnClose(c, FALSE)

FairCaps == [Caps EXCEPT !.conn = FairConn, !.throws = StrictThrows, !.play = FairPlay,
                         !.pending = FairPending, !.pipes = FairPipes]

FairInit == InitWith(FairCaps, {TRUE})

\* The orderly client with the messages it sends and the input of its playbacks
\* observed over a whole exchange: several frames, two fragments.
FlowCaps == [FairCaps EXCEPT !.chunks = FlowChunks, !.sent = FlowSent, !.frags = Fragments]

FlowInit == InitWith(FlowCaps, {TRUE})

FlowSpec == FlowInit /\ [][Next]_vars

\* The orderly client with the messages it sends observed over several
\* captures, concurrent ones included.
CaptureCaps == [StrictCaps EXCEPT !.play = CapturePlay, !.sent = CaptureSent]

CaptureInit == InitWith(CaptureCaps, {TRUE})

CaptureSpec == CaptureInit /\ [][Next]_vars

Fairness ==
    /\ WF_vars(\E i \in DOMAIN playing : PlaybackEnded(i))
    /\ WF_vars(\E t \in timers : ReconnectTimerFire(t))
    /\ WF_vars(StopTimerFire)
    /\ WF_vars(ServerEndsSynthesis)
    /\ WF_vars(ConnectionSettles)

FairSpec == FairInit /\ [][Next]_vars /\ Fairness

\* The orderly client with the cleanup of a page that is being left.
UnloadNext ==
    \/ DOMContentLoaded
    \/ \E c \in DOMAIN conns : OnOpen(c)
    \/ \E c \in DOMAIN conns : ClosingStarted(c)
    \/ \E c \in DOMAIN conns, failed \in BOOLEAN : OnClose(c, failed)
    \/ \E t \in timers : ReconnectTimerFire(t)
    \/ \E c \in DOMAIN conns, m \in Messages : OnMessage(c, m)
    \/ \E i \in DOMAIN playing : PlaybackEnded(i)
    \/ MicClick
    \/ \E outcome \in {"ok", "context", "processor"} : GetUserMediaResolved(outcome)
    \/ GetUserMediaRejected
    \/ \E p \in DOMAIN pipes : OnAudioProcess(p)
    \/ StopTimerFire
    \/ BeforeUnload

UnloadSpec == FairInit /\ [][UnloadNext]_vars

\* ------------------------------------------- the other pages' session id
\* existing.length > 10
Long(v) == v.kind \in {"generated", "server-long"}

ChatGetOrCreateSessionIdNoStore ==
    IF Truthy(storage) /\ Long(storage)
    THEN [value |-> storage, store |-> storage, made |-> 0]
    ELSE [value |-> Generated(ids + 1), store |-> storage, made |-> 1]

\* getOrCreateSessionId of chat.js, which does not accept a stored value of at
\* most 10 characters
ChatGetOrCreateSessionId ==
    IF Truthy(storage) /\ Long(storage)
    THEN [value |-> storage, store |-> storage, made |-> 0]
    ELSE [value |-> Generated(ids + 1), store |-> Generated(ids + 1), made |-> 1]

\* getOrCreateSessionId of search.js
SearchGetOrCreateSessionId ==
    IF Truthy(storage)
    THEN [value |-> storage, store |-> storage, made |-> 0]
    ELSE [value |-> Generated(ids + 1), store |-> Generated(ids + 1), made |-> 1]

\* A page calls its getOrCreateSessionId and puts the value in a /chat request.
RequestWith(id) ==
    /\ Len(requests) < cap.requests
    /\ ids + id.made <= cap.ids
    /\ storage' = id.store
    /\ ids' = ids + id.made
    /\ requests' = Append(requests, id.value)

\* The sequence s without its i-th element.
Without(s, i) == SubSeq(s, 1, i - 1) \o SubSeq(s, i + 1, Len(s))

\* input.disabled = ...; sendButton.disabled = ...
ChatInput(pg, disabled) == [pg EXCEPT !.inputDisabled = disabled, !.sendDisabled = disabled]

\* The re-rank branch of the request body reads livePricesPresets.location,
\* which throws a TypeError when the presets are null.
RerankThrows ==
    /\ chatPage.currentMode = "live_prices"
    /\ chatPage.livePricesResults = "hotels"
    /\ ~chatPage.livePricesPresets

\* The submit handler of chatForm up to `await fetch`, for a message that is
\* not blank: it returns at once while the input or the send button is
\* disabled, and disables both otherwise.  The value getOrCreateSessionId
\* returns is never falsy, so the removeItem branch is not taken.  When
\* building the request body throws, catch and finally run in the same task:
\* nothing is sent and the input is enabled again.
ChatSubmit ==
    /\ ~chatPage.inputDisabled /\ ~chatPage.sendDisabled
    /\ IF RerankThrows
       THEN /\ ids + ChatGetOrCreateSessionId.made <= cap.ids
            /\ storage' = ChatGetOrCreateSessionId.store
            /\ ids' = ids + ChatGetOrCreateSessionId.made
            /\ chatPage' = ChatInput(chatPage, FALSE)
            /\ UNCHANGED <<requests, chatRequest>>
       ELSE /\ RequestWith(ChatGetOrCreateSessionId)
            /\ chatRequest' = Append(chatRequest, ChatGetOrCreateSessionId.value)
            /\ chatPage' = ChatInput(chatPage, TRUE)
    /\ UNCHANGED <<cap, sample, clientClosed, loaded, connVars, stopTimers, isRecording, isProcessing, isSpeaking,
                   ttsAudioChunks, playing, captureVars, audioContext, uiVars, sent, ttsConn,
                   sessions, searchPage, path>>

\* What the submit handler finds after the fetch: a failure, a response
\* without session_id, one with the identifier of the request, or one with an
\* identifier of the server's own.
ChatResponses == {"failed", "none", "echo", "server-short", "server-long"}

\* The submit handler of chatForm after `await fetch`, for the i-th of the
\* requests in flight:
\* if (data.session_id) localStorage.setItem(SESSION_STORAGE_KEY, data.session_id)
\* and, in the finally block, the input and the send button are enabled.
ChatResponse(i, r) ==
    /\ i \in DOMAIN chatRequest
    /\ storage' = IF r = "echo" THEN chatRequest[i]
                  ELSE IF r \in {"server-short", "server-long"} THEN ServerId(r)
                  ELSE storage
    /\ chatRequest' = Without(chatRequest, i)
    /\ chatPage' = ChatInput(chatPage, FALSE)
    /\ UNCHANGED <<cap, sample, clientClosed, loaded, connVars, stopTimers, isRecording, isProcessing, isSpeaking,
                   ttsAudioChunks, playing, captureVars, audioContext, uiVars, sent, ttsConn,
                   sessions, ids, requests, searchPage, path>>

Modes == {"standard", "live_prices"}

\* handleModeToggle of chat.js
HandleModeToggle(mode) ==
    /\ chatPage' =
         IF mode = "live_prices"
         THEN ChatInput([chatPage EXCEPT !.currentMode = mode, !.formShown = TRUE], TRUE)
         ELSE ChatInput([chatPage EXCEPT !.currentMode = mode, !.formShown = FALSE,
                                         !.livePricesPresets = FALSE,
                                         !.livePricesResults = "null",
                                         !.searchInfoShown = FALSE], FALSE)
    /\ UNCHANGED <<cap, sample, clientClosed, loaded, connVars, stopTimers, isRecording, isProcessing, isSpeaking,
                   ttsAudioChunks, playing, captureVars, audioContext, uiVars, sent, ttsConn,
                   sessionVars, requests, chatRequest, searchPage, path>>

\* handleStartSearch of chat.js up to `await fetch`, for a city and dates that
\* pass the validation; the button is in the form and is disabled while a
\* search is in flight.
HandleStartSearch ==
    /\ chatPage.formShown /\ ~chatPage.startDisabled
    /\ RequestWith(ChatGetOrCreateSessionId)
    /\ chatPage' = [chatPage EXCEPT !.livePricesPresets = TRUE, !.startDisabled = TRUE,
                                    !.searches = @ + 1]
    /\ UNCHANGED <<cap, sample, clientClosed, loaded, connVars, stopTimers, isRecording, isProcessing, isSpeaking,
                   ttsAudioChunks, playing, captureVars, audioContext, uiVars, sent, ttsConn,
                   sessions, chatRequest, searchPage, path>>

\* What handleStartSearch finds after the fetch: a failure, a response without
\* an array of hotels, one with an empty array or one with hotels.
StartSearchResponses == {"failed", "none", "empty", "hotels"}

\* handleStartSearch of chat.js after `await fetch`
StartSearchResponse(r) ==
    /\ chatPage.searches > 0
    /\ chatPage' =
         IF r = "failed"
         THEN [chatPage EXCEPT !.startDisabled = FALSE, !.searches = @ - 1]
         ELSE ChatInput([chatPage EXCEPT !.livePricesResults = IF r = "none" THEN @ ELSE r,
                                         !.formShown = FALSE,
                                         !.searchInfoShown = TRUE,
                                         !.startDisabled = FALSE,
                                         !.searches = @ - 1], FALSE)
    /\ UNCHANGED <<cap, sample, clientClosed, loaded, connVars, stopTimers, isRecording, isProcessing, isSpeaking,
                   ttsAudioChunks, playing, captureVars, audioContext, uiVars, sent, ttsConn,
                   sessionVars, requests, chatRequest, searchPage, path>>

\* resetLivePricesSearch of chat.js, the click handler of the "New Search"
\* button that the search info shows
ResetLivePricesSearch ==
    /\ chatPage.searchInfoShown
    /\ chatPage' = ChatInput([chatPage EXCEPT !.livePricesResults = "null",
                                              !.livePricesPresets = FALSE,
                                              !.formShown = TRUE,
                                              !.searchInfoShown = FALSE], TRUE)
    /\ UNCHANGED <<cap, sample, clientClosed, loaded, connVars, stopTimers, isRecording, isProcessing, isSpeaking,
                   ttsAudioChunks, playing, captureVars, audioContext, uiVars, sent, ttsConn,
                   sessionVars, requests, chatRequest, searchPage, path>>

\* showError of search.js
ShowError(pg) == [pg EXCEPT !.errorMessage = TRUE, !.emptyState = FALSE,
                            !.resultsContainer = FALSE]

\* The submit handler of the search form of search.js up to `await fetch`.
\* Without a location it shows an error and returns; otherwise it hides the
\* three panels and disables the search button.
SearchSubmit(location) ==
    /\ ~searchPage.searchDisabled
    /\ IF location
       THEN /\ RequestWith(SearchGetOrCreateSessionId)
            /\ searchPage' = [searchPage EXCEPT !.emptyState = FALSE,
                                                !.resultsContainer = FALSE,
                                                !.errorMessage = FALSE,
                                                !.searchDisabled = TRUE,
                                                !.pending = @ + 1]
       ELSE /\ searchPage' = ShowError(searchPage)
            /\ UNCHANGED <<storage, ids, requests>>
    /\ UNCHANGED <<cap, sample, clientClosed, loaded, connVars, stopTimers, isRecording, isProcessing, isSpeaking,
                   ttsAudioChunks, playing, captureVars, audioContext, uiVars, sent, ttsConn,
                   sessions, chatRequest, chatPage, path>>

\* What the submit handler of the search form finds after the fetch: a
\* failure (or a response displayResults throws on), an action that asks for
\* more or reports an error, or hotels.
SearchResponses == {"failed", "ask", "results"}

\* displayResults of search.js for a response with hotels
DisplayResults(pg) == [pg EXCEPT !.resultsContainer = TRUE]

\* The submit handler of the search form of search.js after `await fetch`
SearchResponse(r) ==
    /\ searchPage.pending > 0
    /\ searchPage' =
         [(IF r = "results" THEN DisplayResults(searchPage) ELSE ShowError(searchPage))
             EXCEPT !.searchDisabled = FALSE, !.pending = @ - 1]
    /\ UNCHANGED <<cap, sample, clientClosed, loaded, connVars, stopTimers, isRecording, isProcessing, isSpeaking,
                   ttsAudioChunks, playing, captureVars, audioContext, uiVars, sent, ttsConn,
                   sessionVars, requests, chatRequest, chatPage, path>>

\* clearFilters of search.js
ClearFilters ==
    /\ searchPage' = [searchPage EXCEPT !.emptyState = TRUE, !.resultsContainer = FALSE,
                                        !.errorMessage = FALSE]
    /\ UNCHANGED <<cap, sample, clientClosed, loaded, connVars, stopTimers, isRecording, isProcessing, isSpeaking,
                   ttsAudioChunks, playing, captureVars, audioContext, uiVars, sent, ttsConn,
                   sessionVars, requests, chatRequest, chatPage, path>>

\* The user clears the stored value.
StorageCleared ==
    /\ storage # Absent
    /\ storage' = Absent
    /\ UNCHANGED <<cap, sample, clientClosed, loaded, connVars, stopTimers, isRecording, isProcessing, isSpeaking,
                   ttsAudioChunks, playing, captureVars, audioContext, uiVars, sent, ttsConn,
                   sessions, ids, requests, chatRequest, chatPage, searchPage, path>>

\* The three pages open in one browser profile: of voice.js the connection
\* lifecycle, which is the part of it that reads the identifier, and of chat.js
\* the standard mode, whose submit handler calls the same getOrCreateSessionId
\* as handleStartSearch.
SessionNext ==
    \/ DOMContentLoaded
    \/ \E c \in DOMAIN conns : OnOpen(c)
    \/ \E c \in DOMAIN conns : ClosingStarted(c)
    \/ \E c \in DOMAIN conns, failed \in BOOLEAN : OnClose(c, failed)
    \/ \E t \in timers : ReconnectTimerFire(t)
    \/ ChatSubmit
    \/ \E i \in DOMAIN chatRequest, r \in ChatResponses : ChatResponse(i, r)
    \/ \E location \in BOOLEAN : SearchSubmit(location)
    \/ \E r \in SearchResponses : SearchResponse(r)
    \/ StorageCleared

SessionCaps == [StrictCaps EXCEPT !.conn = SessionConn, !.ids = SessionIds,
                                 !.requests = SessionRequests,
                                 !.stored = {Absent, Generated(0)}]

SessionInit == InitWith(SessionCaps, {TRUE})

SessionSpec == SessionInit /\ [][SessionNext]_vars

\* ------------------------------------------------------ the chat page
\* chat.js alone: the standard mode, the live-prices mode and its search.
ChatNext ==
    \/ ChatSubmit
    \/ \E i \in DOMAIN chatRequest, r \in ChatResponses : ChatResponse(i, r)
    \/ \E mode \in Modes : HandleModeToggle(mode)
    \/ HandleStartSearch
    \/ \E r \in StartSearchResponses : StartSearchResponse(r)
    \/ ResetLivePricesSearch

ChatCaps == [StrictCaps EXCEPT !.ids = ChatIds, !.requests = ChatRequests]

ChatInit == InitWith(ChatCaps, {TRUE})

ChatSpec == ChatInit /\ [][ChatNext]_vars

\* ---------------------------------------------------- the search page
\* search.js alone, and the user clearing the stored identifier.
SearchNext ==
    \/ \E location \in BOOLEAN : SearchSubmit(location)
    \/ \E r \in SearchResponses : SearchResponse(r)
    \/ ClearFilters
    \/ StorageCleared

SearchCaps == [StrictCaps EXCEPT !.ids = SearchIds, !.requests = SearchRequests]

SearchInit == InitWith(SearchCaps, {TRUE})

SearchSpec == SearchInit /\ [][SearchNext]_vars

\* ------------------------------------------- the stored identifier read
\* Each page calls its getOrCreateSessionId on a storage key that holds
\* nothing, the empty string, a short string or a long one.
StoredNext ==
    \/ DOMContentLoaded
    \/ ChatSubmit
    \/ \E i \in DOMAIN chatRequest, r \in ChatResponses : ChatResponse(i, r)
    \/ \E location \in BOOLEAN : SearchSubmit(location)
    \/ \E r \in SearchResponses : SearchResponse(r)

StoredCaps == [StrictCaps EXCEPT !.ids = StoredIds, !.requests = StoredRequests,
                                !.stored = {Absent, Empty, ServerId("server-short"),
                                            ServerId("server-long")}]

StoredInit == InitWith(StoredCaps, {TRUE})

StoredSpec == StoredInit /\ [][StoredNext]_vars

\* ------------------------------------------------- the path of a sample
\* The loop body of onaudioprocess on one sample of the input buffer.
ConvertSample ==
    /\ sample.stage = "captured"
    /\ sample' = [sample EXCEPT !.stage = "converted",
                                !.pcm16 = FloatToPcm16(sample.float32),
                                !.bytes = Pcm16Bytes(FloatToPcm16(sample.float32))]
    /\ UNCHANGED <<cap, clientClosed, loaded, connVars, stopTimers, isRecording,
                   isProcessing, isSpeaking,
                   ttsAudioChunks, playing, captureVars, audioContext, uiVars, sent, ttsConn,
                   sessionVars, pageVars, path>>

\* The loop body of decodePCMAudio on the two bytes of that sample.
DecodeSample ==
    /\ sample.stage = "converted"
    /\ sample' = [sample EXCEPT !.stage = "decoded",
                                !.channelData = DecodePCMAudio(sample.bytes)]
    /\ UNCHANGED <<cap, clientClosed, loaded, connVars, stopTimers, isRecording,
                   isProcessing, isSpeaking,
                   ttsAudioChunks, playing, captureVars, audioContext, uiVars, sent, ttsConn,
                   sessionVars, pageVars, path>>

CodecNext == ConvertSample \/ DecodeSample

CodecCaps == [StrictCaps EXCEPT !.samples = Samples]

CodecInit == InitWith(CodecCaps, {TRUE})

\* A frame captured by the page is played back by the page.
CodecSpec == CodecInit /\ [][CodecNext]_vars

\* ---------------------------------------------------------------- claims
LiveConns == {c \in DOMAIN conns : conns[c] \in {"connecting", "open"}}

LivePipes == {p \in DOMAIN pipes : pipes[p].stream = "live" /\ pipes[p].proc = "connected"}

\* C1: isRecording and isSpeaking are never both true, whatever the
\* interleaving of clicks, getUserMedia completions and server messages.
C1_RecordingExcludesSpeaking == ~(isRecording /\ isSpeaking)

\* C2: a mic-button click while isSpeaking is true changes none of
\* isRecording, isProcessing, isSpeaking, ttsAudioChunks, the capture handles
\* and reconnectTimer, requests no microphone and sends nothing.
C2_ClickWhileSpeakingIsNoOp ==
    [][(MicClick /\ isSpeaking) =>
          UNCHANGED <<isRecording, isProcessing, isSpeaking, ttsAudioChunks, mediaStream,
                      scriptProcessor, audioContext, pipes, reconnectTimer, timers,
                      micPending, sent>>]_vars

\* A state in which the button delivers clicks while the assistant speaks and
\* no capture handle is held.
C2_Witness ==
    /\ isSpeaking /\ ~micDisabled /\ ~isRecording
    /\ mediaStream = 0 /\ scriptProcessor = 0 /\ micPending = 0

\* C3: at most one reconnect timer is pending at any instant, and it is the
\* one the variable reconnectTimer holds.
C3_ReconnectSingularity ==
    /\ Cardinality(timers) <= 1
    /\ timers = IF reconnectTimer = NoTimer THEN {} ELSE {reconnectTimer}

\* A timer is pending after the close of a connection that was itself made by
\* a reconnect.
C3_Witness == Len(conns) = 2 /\ conns[2] = "closed" /\ Cardinality(timers) = 1

\* C4: whenever isSpeaking becomes true it eventually becomes false again.
C4_SpeakingEnds == isSpeaking ~> ~isSpeaking

\* C5: at most one TTS playback is active at a time.
C5_SinglePlayback == Len(playing) <= 1

\* C6: at most one capture pipeline (media stream and script processor that
\* forwards frames) is live at any time.
C6_SinglePipeline == Cardinality(LivePipes) <= 1

\* C7: once the page has loaded there is always a connecting or open
\* connection, or a reconnect timer pending.
C7_AlwaysConnectedOrRetrying == loaded => (LiveConns # {} \/ timers # {})

\* C8: at most one connection is connecting or open, and while a connection
\* is open no reconnect timer is pending.
C8_SingleConnection ==
    /\ Cardinality(LiveConns) <= 1
    /\ \A c \in DOMAIN conns :
          conns[c] = "open" => timers = {} /\ reconnectTimer = NoTimer

\* The connection made by the second reconnect is open.
C8_Witness == Len(conns) = 3 /\ conns[2] = "closed" /\ conns[3] = "open"

\* C9: the timer a close schedules has the short delay if and only if
\* isProcessing is true at the moment of the close, the long delay otherwise.
C9_DelayFollowsProcessing ==
    [][\A c \in DOMAIN conns :
          (conns[c] # "closed" /\ conns'[c] = "closed") =>
              /\ reconnectTimer' \in timers'
              /\ reconnectTimer'.delay = ShortDelay <=> isProcessing
              /\ reconnectTimer'.delay = LongDelay <=> ~isProcessing]_vars

\* A connection closed while isProcessing was true and its timer is pending.
C9_Witness ==
    /\ isProcessing
    /\ reconnectTimer \in timers
    /\ reconnectTimer.delay = ShortDelay

\* C10: handling tts_error leaves ttsAudioChunks empty and isSpeaking and
\* isProcessing false, whatever the state before, and adds a system notice.
C10_TtsErrorResets ==
    [][\A c \in DOMAIN conns :
          OnMessage(c, [type |-> "tts_error"]) =>
              /\ ttsAudioChunks' = <<>>
              /\ ~isSpeaking'
              /\ ~isProcessing'
              /\ transcript' = AddTranscript(<<"system: audio playback error">>)]_vars

\* The notice of a tts_error is the last transcript entry and the client is
\* neither speaking nor processing.
C10_Witness ==
    /\ transcript = <<"system: audio playback error">>
    /\ ~isSpeaking /\ ~isProcessing /\ ttsAudioChunks = <<>>

\* C11: a tts_end with an empty buffer leaves the buffer empty and isSpeaking
\* false at once; the completion of the playback a tts_end started leaves them
\* so; and from the start of that playback to its completion the buffer is not
\* cleared and isSpeaking does not become false.
C11_TtsEndResetsAtCompletion ==
    [][/\ \A c \in DOMAIN conns :
             (OnMessage(c, [type |-> "tts_end"]) /\ ttsAudioChunks = <<>>) =>
                 (ttsAudioChunks' = <<>> /\ ~isSpeaking')
       /\ (\E i \in DOMAIN playing : PlaybackEnded(i) /\ i = Len(playing)) =>
             (ttsAudioChunks' = <<>> /\ ~isSpeaking')
       /\ (/\ playing # <<>>
           /\ isSpeaking
           /\ \/ Len(playing') >= Len(playing)
              \/ \E i \in 1..(Len(playing) - 1) : PlaybackEnded(i)) =>
             (isSpeaking' /\ (ttsAudioChunks # <<>> => ttsAudioChunks' # <<>>))]_vars

\* C12: a tts_end whose playback fails to start (the buffer is not empty and no
\* source is started) adds the notice and leaves isSpeaking and isProcessing
\* false and the buffer empty.
C12_PlaybackFailureResets ==
    [][\A c \in DOMAIN conns :
          (OnMessage(c, [type |-> "tts_end"]) /\ ttsAudioChunks # <<>> /\ playing' = playing) =>
              /\ ttsAudioChunks' = <<>>
              /\ ~isSpeaking'
              /\ ~isProcessing'
              /\ transcript' = AddTranscript(<<"system: failed to play audio">>)]_vars

\* The notice of a failed playback is the last transcript entry and the client
\* is idle.
C12_Witness ==
    /\ transcript = <<"system: failed to play audio">>
    /\ ~isSpeaking /\ ~isProcessing /\ ttsAudioChunks = <<>> /\ playing = <<>>

\* C13: along the happy path, from the stop of the capture on exactly three
\* frames and then one audio_end have been sent, the playback started by
\* tts_end has the two fragments in arrival order as its input, and at the end
\* isRecording, isProcessing and isSpeaking are false and the buffer is empty.
C13_HappyPath ==
    /\ (path >= 8 /\ path # Off) =>
          sent = <<<<"frame", 1>>, <<"frame", 1>>, <<"frame", 1>>, <<"audio_end", 1>>>>
    /\ path = 14 =>
          /\ Len(playing) = 1
          /\ playing[1].input = FragmentText("f1") \o FragmentText("f2")
    /\ path = Len(HappyPath) =>
          /\ ~isRecording /\ ~isProcessing /\ ~isSpeaking
          /\ ttsAudioChunks = <<>> /\ playing = <<>>

\* The happy path has run to its end.
C13_Witness == path = Len(HappyPath)

\* A step appends a binary frame to the messages sent.
FrameAppended == Len(sent') = Len(sent) + 1 /\ sent'[Len(sent')][1] = "frame"

\* C14: a frame is sent only during a capture that was started and not
\* stopped, after the messages sent before it; stopRecording ends the capture,
\* and only the completion of a startRecording begins one.
C14_NoFrameAfterStop ==
    [][/\ FrameAppended =>
             /\ isRecording /\ scriptProcessor # 0
             /\ SubSeq(sent', 1, Len(sent)) = sent
       /\ (MicClick /\ isRecording /\ ~isSpeaking) =>
             (~isRecording' /\ scriptProcessor' = 0)
       /\ (~isRecording /\ isRecording') =>
             /\ micPending' = micPending - 1
             /\ Len(pipes') = Len(pipes) + 1
             /\ scriptProcessor' = Len(pipes')]_vars

\* A frame of a second capture follows the audio_end of the first.
C14_Witness ==
    /\ Len(sent) = 3 /\ isRecording
    /\ sent[1][1] = "frame" /\ sent[2][1] = "audio_end" /\ sent[3][1] = "frame"

\* C15: every stopRecording sends exactly one audio_end over the connection,
\* whatever the state of the connection.
C15_StopSendsAudioEnd ==
    [][(MicClick /\ isRecording /\ ~isSpeaking) =>
          sent' = Append(sent, <<"audio_end", websocket>>)]_vars

\* C15 as amended: every stopRecording sends exactly one audio_end if the
\* connection is open at that moment and nothing otherwise.
C15_StopSendsAudioEndIfOpen ==
    [][(MicClick /\ isRecording /\ ~isSpeaking) =>
          sent' = IF ReadyOpen(websocket)
                  THEN Append(sent, <<"audio_end", websocket>>) ELSE sent]_vars

\* A capture was stopped while the connection was closing and nothing was sent.
C15_Witness ==
    /\ ~isRecording /\ isProcessing /\ stopTimers > 0 /\ sent = <<>>
    /\ websocket # 0 /\ conns[websocket] = "closing"

\* C16: a frame is sent only over the current connection and only if it is
\* open when the callback runs; a callback that runs while it is not open
\* changes nothing, so its frame is not kept for later.
C16_FramesOnlyWhenOpen ==
    [][/\ FrameAppended =>
             (sent'[Len(sent')][2] = websocket /\ ReadyOpen(websocket))
       /\ \A p \in DOMAIN pipes :
             (OnAudioProcess(p) /\ ~ReadyOpen(websocket)) => UNCHANGED clientVars]_vars

\* A capture goes on while the connection it sent a frame over is closed and
\* the next one is not yet open.
C16_Witness ==
    /\ isRecording /\ LivePipes # {}
    /\ sent = <<<<"frame", 1>>>>
    /\ conns = <<"closed", "connecting">>

\* C17: all connections made by connectWebSocket carry the same session_id,
\* and the storage key is written at most once: only when it is absent.
C17_SameSessionId ==
    [][/\ \A i, j \in DOMAIN sessions' : sessions'[i] = sessions'[j]
       /\ storage' # storage => (storage = Absent /\ storage' # Absent)]_vars

\* Three connections were made with the identifier generated for the first.
C17_Witness == Len(sessions) = 3 /\ storage = Generated(1) /\ sessions[3] = Generated(1)

\* C20: a startRecording that fails (getUserMedia rejects, or the audio
\* context or the script processor cannot be created once the stream is
\* granted) leaves isRecording, the messages sent and the capture handles as
\* they were, holds no new stream, and shows the notice.
C20_FailedStartHoldsNothing ==
    [][(\/ GetUserMediaRejected
        \/ \E outcome \in {"context", "processor"} : GetUserMediaResolved(outcome)) =>
          /\ UNCHANGED <<isRecording, sent, mediaStream, scriptProcessor, audioContext>>
          /\ {p \in DOMAIN pipes' : pipes'[p].stream = "live"}
                = {p \in DOMAIN pipes : pipes[p].stream = "live"}
          /\ micStatus' = "Microphone access denied"]_vars

\* The identifiers the pages used so far, and the one of earlier page loads.
PreviousIds ==
    {requests[i] : i \in DOMAIN requests} \cup {sessions[i] : i \in DOMAIN sessions}
        \cup {Generated(0)}

\* What a call of getOrCreateSessionId that returned r must have done: a second
\* call, made right after, returns r (twice = the value `again` has in the next
\* state), and if the stored value was absent r is stored and is none of the
\* identifiers used before.
SameAgainAndNewAfterClear(r, twice) ==
    /\ twice = r
    /\ storage = Absent => (storage' = r /\ r \notin PreviousIds)

\* C18: each getOrCreateSessionId (voice.js, chat.js, search.js) returns the
\* same value when called again with the storage untouched, and after the
\* stored value is cleared it generates, stores and returns a value different
\* from the previous ones.
C18_SessionPersistence ==
    [][/\ (ChatSubmit /\ Len(requests') > Len(requests)) =>
             SameAgainAndNewAfterClear(requests'[Len(requests')],
                                       ChatGetOrCreateSessionId.value')
       /\ SearchSubmit(TRUE) =>
             SameAgainAndNewAfterClear(requests'[Len(requests')],
                                       SearchGetOrCreateSessionId.value')
       /\ Len(sessions') > Len(sessions) =>
             SameAgainAndNewAfterClear(sessions'[Len(sessions')],
                                       GetOrCreateSessionId.value')]_vars

\* Two requests carried the first identifier; it was cleared and the third
\* request carries a new one, which is stored.
C18_Witness ==
    /\ requests = <<Generated(1), Generated(1), Generated(2)>>
    /\ storage = Generated(2)

\* C19: once an identifier is stored, no operation of voice.js, chat.js or
\* search.js replaces it with a different value.
C19_StoredIdNeverReplaced ==
    [][(storage # Absent /\ ~StorageCleared) => storage' = storage]_vars

\* C21: a server message that is not valid JSON, or whose handling throws,
\* leaves isRecording, isProcessing, isSpeaking, ttsAudioChunks and
\* reconnectTimer unchanged and the connection open.
C21_FailedMessageDropped ==
    [][\A c \in DOMAIN conns, m \in Messages :
          (OnMessage(c, m) /\ (m.type = "malformed" \/ HandlingThrows(m))) =>
              /\ UNCHANGED <<isRecording, isProcessing, isSpeaking, ttsAudioChunks,
                             reconnectTimer>>
              /\ conns'[c] = "open"]_vars

\* C22: a message of an unknown type, a server_debug and a legacy 'audio'
\* message change no client state (the transcript included) and send nothing.
C22_UnknownTypeIgnored ==
    [][\A c \in DOMAIN conns, t \in {"unknown", "server_debug", "audio"} :
          OnMessage(c, [type |-> t]) => UNCHANGED clientVars]_vars

\* An open connection can deliver a message while every flag is set and the
\* buffer holds a fragment.
C22_Witness ==
    /\ ReadyOpen(websocket)
    /\ isProcessing /\ isSpeaking /\ ttsAudioChunks # <<>> /\ playing # <<>>

\* C23: every message kind of the documented flow triggers its action:
\* partial_text and final_text display the user's utterance, assistant_response
\* displays the answer and ends the processing, tts_start begins the speaking,
\* tts_audio appends its fragment, tts_end starts the playback or resets,
\* tts_error adds its notice.
C23_DocumentedKindsHandled ==
    [][\A c \in DOMAIN conns :
          /\ (\/ OnMessage(c, [type |-> "partial_text"])
              \/ OnMessage(c, [type |-> "final_text", text |-> TRUE])) =>
                transcript' = AddTranscript(<<"user">>)
          /\ OnMessage(c, [type |-> "assistant_response", text |-> TRUE, hotels |-> FALSE]) =>
                (~isProcessing' /\ transcript' = AddTranscript(<<"assistant">>))
          /\ OnMessage(c, [type |-> "tts_start"]) => (isSpeaking' /\ ttsAudioChunks' = <<>>)
          /\ \A f \in cap.frags :
                OnMessage(c, [type |-> "tts_audio", audio |-> f]) =>
                    ttsAudioChunks' = Append(ttsAudioChunks, f)
          /\ OnMessage(c, [type |-> "tts_end"]) =>
                (Len(playing') = Len(playing) + 1 \/ (~isSpeaking' /\ ttsAudioChunks' = <<>>))
          /\ OnMessage(c, [type |-> "tts_error"]) =>
                transcript' = AddTranscript(<<"system: audio playback error">>)]_vars

\* The distance of two samples.
Distance(a, b) == IF a < b THEN b - a ELSE a - b

\* C24: for a sample in [-1, 1] the integer the capture conversion computes
\* lies in [-32768, 32767] (it is stored as computed), and the value the
\* playback decode gives back is within 1 LSB (1/32768) of the sample.
C24_FrameIntegrity ==
    (Clamp(sample.float32) = sample.float32) =>
        /\ sample.stage # "captured" =>
              /\ Scaled(sample.float32) \in -NegativeScale..PositiveScale
              /\ sample.pcm16 = Scaled(sample.float32)
        /\ sample.stage = "decoded" =>
              Distance(sample.float32, sample.channelData) <= SampleScale \div DecodeScale

\* a is an initial part of b.
IsPrefix(a, b) == Len(a) <= Len(b) /\ SubSeq(b, 1, Len(a)) = a

\* C25: the input of the playback a tts_end starts is the concatenation, in
\* arrival order, of the fragments received since the most recent tts_start:
\* tts_start empties the buffer, every fragment is appended to it, while the
\* synthesis goes on no other event removes a fragment from it, and tts_end
\* hands the whole of it to the playback.
C25_PlaybackInputIsSynthesis ==
    [][/\ \A c \in DOMAIN conns :
             /\ OnMessage(c, [type |-> "tts_start"]) => ttsAudioChunks' = <<>>
             /\ \A f \in cap.frags :
                   OnMessage(c, [type |-> "tts_audio", audio |-> f]) =>
                       ttsAudioChunks' = Append(ttsAudioChunks, f)
             /\ (OnMessage(c, [type |-> "tts_end"]) /\ Len(playing') > Len(playing)) =>
                   playing'[Len(playing')].input = Join(ttsAudioChunks)
       /\ (/\ ttsConn # 0
           /\ ttsConn' = ttsConn
           /\ ~OnMessage(ttsConn, [type |-> "tts_start"])) =>
             IsPrefix(ttsAudioChunks, ttsAudioChunks')]_vars

\* C26: while a playback is active isSpeaking is true.
C26_SpeakingWhilePlaying == playing # <<>> => isSpeaking

\* C27: while isSpeaking is false the buffer is empty.
C27_ChunksOnlyWhileSpeaking == ~isSpeaking => ttsAudioChunks = <<>>

\* C28: isProcessing is true only if an audio_end was sent over the current
\* connection and that connection is open.
C28_ProcessingMeansInFlight ==
    isProcessing =>
        /\ ReadyOpen(websocket)
        /\ \E i \in DOMAIN sent : sent[i] = <<"audio_end", websocket>>

\* C29: when the timer of a stopRecording fires and nothing has changed the
\* status since that stop, the client is idle afterwards: not recording, not
\* processing, not speaking, and shown as ready; when something has (a
\* disconnect, a synthesis, a new capture), the timer changes nothing.
C29_ProcessingTimeout ==
    [][StopTimerFire =>
          IF micStatus = "Processing..."
          THEN /\ micStatus' = "Click to speak"
               /\ ~isRecording' /\ ~isProcessing' /\ ~isSpeaking'
          ELSE UNCHANGED <<micStatus, isRecording, isProcessing, isSpeaking>>]_vars

\* C30: at most one of isRecording, isProcessing and isSpeaking is true.
C30_SingleRecordingState ==
    /\ ~(isRecording /\ isProcessing)
    /\ ~(isProcessing /\ isSpeaking)
    /\ ~(isSpeaking /\ isRecording)

\* C31: handling an 'error' message sets isProcessing to false and adds a
\* notice, and leaves isRecording, isSpeaking, ttsAudioChunks, the capture
\* handles and reconnectTimer unchanged.
C31_ErrorEndsProcessing ==
    [][\A c \in DOMAIN conns :
          OnMessage(c, [type |-> "error"]) =>
              /\ ~isProcessing'
              /\ transcript' = AddTranscript(<<"system: error">>)
              /\ UNCHANGED <<isRecording, isSpeaking, ttsAudioChunks, mediaStream,
                             scriptProcessor, audioContext, pipes, reconnectTimer,
                             timers>>]_vars

\* The notice of an error is the last transcript entry while the assistant
\* speaks and the buffer holds a fragment.
C31_Witness ==
    /\ transcript = <<"system: error">>
    /\ ~isProcessing /\ isSpeaking /\ ttsAudioChunks # <<>>

\* C32: stopRecording does not close an audio context on which a playback
\* is in progress.
C32_StopKeepsPlaybackContext ==
    [][(MicClick /\ isRecording /\ ~isSpeaking /\ audioContext # NoCtx) =>
          \A i \in DOMAIN playing : playing[i].ctx # audioContext]_vars

\* A close event has been delivered.
ClosedOnce == \E c \in DOMAIN conns : conns[c] = "closed"

\* C33: after the first close event the button is enabled only while the
\* current connection is open and the status shows 'Connected' only while
\* it is open; from a close to the next onopen the button is disabled and the
\* status shows 'Disconnected'.
C33_ButtonFollowsConnection ==
    ClosedOnce =>
        /\ (~micDisabled \/ statusText = "Connected") => ReadyOpen(websocket)
        /\ ~ReadyOpen(websocket) => (micDisabled /\ statusText = "Disconnected")

\* C34: the mic status becomes 'Click to speak' only when the connection is
\* open and the client is neither recording nor speaking.
C34_ReadyPromptOnlyWhenReady ==
    [][(micStatus # "Click to speak" /\ micStatus' = "Click to speak") =>
          /\ websocket' # 0 /\ conns'[websocket'] = "open"
          /\ ~isRecording' /\ ~isSpeaking']_vars

\* C35: once the beforeunload cleanup has closed the connection, no reconnect
\* timer is pending and no new connection is made.
C35_NoReconnectAfterUnload ==
    clientClosed # 0 => (timers = {} /\ reconnectTimer = NoTimer /\ Len(conns) = clientClosed)

\* C36: chat.js has at most one chat request in flight at any time, and from
\* a submission until that request's finally block the input and the send
\* button stay disabled, whatever mode toggles and start-search requests come
\* in between.
C36_OneChatRequestInFlight ==
    /\ Len(chatRequest) <= 1
    /\ chatRequest # <<>> => (chatPage.inputDisabled /\ chatPage.sendDisabled)

\* C37: whenever livePricesResults is a non-empty list, livePricesPresets is
\* not null and currentMode is 'live_prices', so that the re-rank branch of
\* the chat submit never reads a property of null.
C37_ResultsImplyPresets ==
    chatPage.livePricesResults = "hotels" =>
        (chatPage.livePricesPresets /\ chatPage.currentMode = "live_prices")

\* C38: while the live-prices form is displayed the chat input and the send
\* button are disabled.
C38_FormMeansInputDisabled ==
    chatPage.formShown => (chatPage.inputDisabled /\ chatPage.sendDisabled)

\* C39: at most one of the panels emptyState, resultsContainer and
\* errorMessage of search.js is visible at any time.
C39_OnePanelVisible ==
    Cardinality({p \in {"emptyState", "resultsContainer", "errorMessage"} :
                    searchPage[p]}) <= 1

\* C40: the getOrCreateSessionId of voice.js, of chat.js and of search.js are
\* equivalent: on every content of the storage key they return the same kind
\* of value (the stored one, or a generated one) and leave the same value
\* stored.
C40_SameSessionIdFunction ==
    /\ ChatGetOrCreateSessionId = GetOrCreateSessionId
    /\ SearchGetOrCreateSessionId = GetOrCreateSessionId

====
